---- MODULE Spec2Model ----
(***************************************************************************)
(* A model of cpp-ascii-image (src/src/main.cpp): the command line parser  *)
(* parse_args, the nearest-neighbour resampler resize_nn, the glyph mapper *)
(* map_intensity_to_char and the driver main.                              *)
(*                                                                         *)
(* Conventions.                                                            *)
(*  - argv is the C argv as a 1-based sequence: argv[k+1] is C's argv[k],  *)
(*    Len(argv) is argc.  Arg(k) reads C's argv[k].                        *)
(*  - A std::string is a sequence of one-character strings when its        *)
(*    characters are read (the charset), and a token string otherwise.     *)
(*  - float values are modelled by exact rationals, the aspect ratio as a  *)
(*    pair <<num, den>>.  On the ranges used here the compiled float       *)
(*    expressions of lines 89, 92, 106 and 131 give the same integers as   *)
(*    the exact ones; beyond them line 131 can differ by one at a half     *)
(*    (h = 9, outW = 7, w = 120, aspect 0.05f gives 10, exactly 10.5),     *)
(*    and its conversion to int is undefined once the quotient exceeds int.*)
(*  - std::round rounds halves away from zero.                             *)
(***************************************************************************)
EXTENDS Integers, Sequences, FiniteSets, TLC

VARIABLES
    argv,        \* the command line, program name first
    file,        \* the content of the file named "img" (NoFile: absent)
    pc,          \* the position of main
    i,           \* parse_args' loop index (C's i)
    opt,         \* the Options record
    img,         \* the grayscale buffer stbi_load returned
    outW,        \* main's outW
    outH,        \* main's outH
    resized,     \* the vector resize_nn returned
    out,         \* the sink rows go to: "cout", or the path of the file
    truncated,   \* the paths the run has opened with ios::trunc
    y,           \* the emit loop's row index
    sink,        \* the characters written to *out, in order
    diag,        \* the messages written to std::cerr, in order
    exitStatus,  \* -1 while running, else the status the process ended with
    outcome,     \* which return (or throw) ended the run
    fin,         \* the input of a function application (function harness)
    fout         \* its result

vars == <<argv, file, pc, i, opt, img, outW, outH, resized, out, truncated,
          y, sink, diag, exitStatus, outcome, fin, fout>>

mainVars == <<argv, file, pc, i, opt, img, outW, outH, resized, out,
              truncated, y, sink, diag, exitStatus, outcome>>

(***************************************************************************)
(* Bounds.                                                                 *)
(***************************************************************************)
MaxArgs == 3     \* arguments after the program name
MaxDim == 2      \* width and height of the images the pipeline decodes
MaxCols == 3     \* -w values the pipeline is started with
MaxGeom == 8     \* widths, heights and column counts of the geometry harness
MaxRamp == 10    \* ramp lengths of the glyph mapper harness
StripW == 120    \* width of the one-row image behind the command line runs

(***************************************************************************)
(* Arithmetic helpers.                                                     *)
(***************************************************************************)
Max(a, b) == IF a >= b THEN a ELSE b

\* std::clamp(v, lo, hi)
Clamp(v, lo, hi) == IF v < lo THEN lo ELSE IF v > hi THEN hi ELSE v

\* std::round of the non-negative rational n/d (d > 0): halves go up.
RoundDiv(n, d) == (2 * n + d) \div (2 * d)

\* static_cast<int> of the non-negative rational n/d (d > 0): truncation.
TruncDiv(n, d) == n \div d

(***************************************************************************)
(* Strings.                                                                *)
(***************************************************************************)
\* Options::charset's default, "@%#*+=-:. ", as its characters.
DefaultCharset == <<"@", "%", "#", "*", "+", "=", "-", ":", ".", " ">>

\* The command line words the runs are built from.
Tokens ==
    {"img", "-h", "--help", "-w", "-a", "-c", "-i", "-o", "-x", "2", "",
     "out", "/nodir/out"}

\* The characters of a std::string built from a command line word.
Chars(s) ==
    CASE s = "" -> << >>
      [] s = "2" -> <<"2">>
      [] s = "@ " -> <<"@", " ">>
      [] s = "img" -> <<"i", "m", "g">>
      [] s = "out" -> <<"o", "u", "t">>
      [] s = "-h" -> <<"-", "h">>
      [] s = "-w" -> <<"-", "w">>
      [] s = "-a" -> <<"-", "a">>
      [] s = "-c" -> <<"-", "c">>
      [] s = "-i" -> <<"-", "i">>
      [] s = "-o" -> <<"-", "o">>
      [] s = "-x" -> <<"-", "x">>
      [] s = "--help" -> <<"-", "-", "h", "e", "l", "p">>
      [] OTHER -> <<"/", "n", "o", "d", "i", "r", "/", "o", "u", "t">>

\* std::atoi: the value of the leading decimal digits, 0 when there are none.
Atoi(s) ==
    CASE s = "1" -> 1
      [] s = "2" -> 2
      [] s = "3" -> 3
      [] OTHER -> 0

\* std::stof converts a word that starts with a number and throws
\* std::invalid_argument on any other.
StofThrows(s) == s \notin {"1", "2", "3"}

\* std::stof's value, as the rational <<num, den>>.
Stof(s) == <<Atoi(s), 1>>

\* std::max(a, b) of two positive rationals.
MaxRat(a, b) == IF a[1] * b[2] >= b[1] * a[2] THEN a ELSE b

(***************************************************************************)
(* The environment: the file system and the image decoder.                 *)
(***************************************************************************)
\* An image file is described by its size, its channel count and the name of
\* its content; FilePx gives its pixels.
NoFile == [w |-> 0, h |-> 0, ch |-> 0, fill |-> "absent"]

Checker(w, k) == IF ((k % w) + (k \div w)) % 2 = 0 THEN 0 ELSE 255

\* Byte c (from 1) of pixel k (from 0, row-major) of file f.
FileByte(f, k, c) ==
    CASE f.fill = "checker" -> Checker(f.w, k)
      [] f.fill = "gray" -> 128
      [] f.fill = "gradient" -> (2 * k) % 256
      [] f.fill = "clear_gray" -> <<200, 0>>[c]
      [] f.fill = "red" -> <<255, 0, 0>>[c]
      [] f.fill = "clear_white" -> <<255, 255, 255, 0>>[c]
      [] OTHER -> <<0, 0, 0, 255>>[c]

\* The pixels of file f, row-major, each a tuple of f.ch bytes.
FilePx(f) ==
    [k \in 1..(f.w * f.h) |-> [c \in 1..f.ch |-> FileByte(f, k - 1, c)]]

\* The images the pipeline is run on: for every size a checkerboard of 0 and
\* 255 (at 2x2: 0,255,255,0) and a uniform gray of 128, of one channel; and
\* one-pixel images of 2, 3 and 4 channels, two of them fully transparent.
ImageFiles ==
    [w : 1..MaxDim, h : 1..MaxDim, ch : {1}, fill : {"checker", "gray"}]
    \cup {[w |-> 1, h |-> 1, ch |-> 2, fill |-> "clear_gray"],
          [w |-> 1, h |-> 1, ch |-> 3, fill |-> "red"],
          [w |-> 1, h |-> 1, ch |-> 4, fill |-> "clear_white"],
          [w |-> 1, h |-> 1, ch |-> 4, fill |-> "opaque_black"]}

\* The image behind the command line runs: one row, StripW columns.
StripFile == [w |-> StripW, h |-> 1, ch |-> 1, fill |-> "gradient"]

\* An output path can be opened unless its directory does not exist.
Openable(path) == path # "/nodir/out"

\* stb_image's luma of an RGB triple (stbi__compute_y).
stbi__compute_y(r, g, b) == ((r * 77) + (g * 150) + (29 * b)) \div 256

\* stbi_load(path, &w, &h, &ch, 1): the decoder is asked for one channel and
\* returns w*h grayscale bytes.  stb_image converts to one channel by keeping
\* the gray byte of a 1- or 2-channel image and taking the luma of R, G, B of
\* a 3- or 4-channel image; the alpha byte is dropped, never multiplied in.
stbi_load(f) ==
    [w |-> f.w, h |-> f.h,
     px |-> [k \in 1..(f.w * f.h) |->
                LET p == FilePx(f)[k]
                IN  IF f.ch <= 2 THEN p[1]
                    ELSE stbi__compute_y(p[1], p[2], p[3])]]

NoImage == [w |-> 0, h |-> 0, px |-> << >>]

(***************************************************************************)
(* resize_nn and the row count of main.                                    *)
(***************************************************************************)
\* SrcCoord without the half-cell offset: (int)(x * sw / dw), clamped.
SrcCoordNoOffset(x, sw, dw) == Clamp(TruncDiv(x * sw, dw), 0, sw - 1)

\* static_cast<int>((x + 0.5f) * sw / static_cast<float>(dw)) clamped to
\* [0, sw - 1]: the source coordinate of destination coordinate x.
SrcCoord(x, sw, dw) == Clamp(TruncDiv((2 * x + 1) * sw, 2 * dw), 0, sw - 1)

\* The index resize_nn reads for destination cell (x, y): sy * sw + sx.
SampleIndex(x, yy, sw, sh, dw, dh) ==
    SrcCoord(yy, sh, dh) * sw + SrcCoord(x, sw, dw)

\* resize_nn(src, sw, sh, dw, dh): dst[y * dw + x] = src[sy * sw + sx].
resize_nn(src, sw, sh, dw, dh) ==
    [k \in 1..(dw * dh) |->
        src[SampleIndex((k - 1) % dw, (k - 1) \div dw, sw, sh, dw, dh) + 1]]

\* OutRows without the std::max(1, ...) around the rounded row count.
OutRowsUnfloored(h, ow, w, aspect) ==
    LET a == MaxRat(<<1, 100>>, aspect)
    IN  RoundDiv(h * ow * a[2], w * a[1])

\* main's outH: scale = outW / w;
\* max(1, (int) round(h * scale / max(0.01f, charAspect))).
OutRows(h, ow, w, aspect) ==
    LET a == MaxRat(<<1, 100>>, aspect)
    IN  Max(1, RoundDiv(h * ow * a[2], w * a[1]))

(***************************************************************************)
(* map_intensity_to_char.                                                  *)
(***************************************************************************)
\* MapIndex without the "if (invert) t = 1.0f - t".
MapIndexNoInvert(v, n, invert) == Clamp(RoundDiv(v * (n - 1), 255), 0, n - 1)

\* The index into the charset: round(t * (n - 1)) clamped, t = v / 255,
\* replaced by 1 - t when invert is set.  C's index k is charset[k + 1] here.
MapIndex(v, n, invert) ==
    LET t255 == IF invert THEN 255 - v ELSE v
    IN  Clamp(RoundDiv(t255 * (n - 1), 255), 0, n - 1)

map_intensity_to_char(v, charset, invert) ==
    IF Len(charset) = 1 THEN charset[1]
    ELSE charset[MapIndex(v, Len(charset), invert) + 1]

(***************************************************************************)
(* parse_args.                                                             *)
(***************************************************************************)
\* Options' member initialisers.
DefaultOptions ==
    [inputPath |-> "", outputPath |-> "", width |-> 120,
     charAspect |-> <<1, 2>>, invert |-> FALSE, charset |-> DefaultCharset]

argc == Len(argv)

\* C's argv[k].
Arg(k) == argv[k + 1]

\* parse_args has returned false: main is at its "if (!parse_args(...))".
Reject(why, message) ==
    /\ pc' = "rejected"
    /\ outcome' = why
    /\ diag' = Append(diag, message)

\* The lambda need_val: a value must follow the option at i.
need_val == i + 1 < argc

\* Lines 40-44: no input path prints the usage and returns false; otherwise
\* argv[1] becomes the input path, whatever it is, and the loop starts at 2.
ParseEnter ==
    /\ pc = "start"
    /\ IF argc < 2
       THEN /\ Reject("no_input", "usage")
            /\ UNCHANGED <<i, opt>>
       ELSE /\ opt' = [opt EXCEPT !.inputPath = Arg(1)]
            /\ i' = 2
            /\ pc' = "parse"
            /\ UNCHANGED <<outcome, diag>>
    /\ UNCHANGED <<argv, file, img, outW, outH, resized, out, truncated, y,
                   sink, exitStatus, fin, fout>>

InLoop == pc = "parse" /\ i < argc

ParseFrame ==
    UNCHANGED <<argv, file, img, outW, outH, resized, out, truncated, y,
                sink, fin, fout>>

IsValueOption(arg) ==
    arg \in {"-w", "--width", "-a", "--aspect", "-c", "--charset", "-o",
             "--output"}

\* Lines 55, 58, 61, 70: an option that takes a value is the last word.
ParseMissingValue ==
    /\ InLoop
    /\ IsValueOption(Arg(i))
    /\ ~need_val
    /\ Reject("missing_value", "Missing value")
    /\ UNCHANGED <<i, opt, exitStatus>>
    /\ ParseFrame

\* Lines 54-56: opt.width = max(1, atoi(argv[++i])).
ParseWidth ==
    /\ InLoop
    /\ Arg(i) \in {"-w", "--width"}
    /\ need_val
    /\ opt' = [opt EXCEPT !.width = Max(1, Atoi(Arg(i + 1)))]
    /\ i' = i + 2
    /\ UNCHANGED <<pc, outcome, diag, exitStatus>>
    /\ ParseFrame

\* Lines 57-59: opt.charAspect = max(0.05f, stof(argv[++i])).  std::stof
\* throws std::invalid_argument on a word that is no number.
ParseAspect ==
    /\ InLoop
    /\ Arg(i) \in {"-a", "--aspect"}
    /\ need_val
    /\ IF StofThrows(Arg(i + 1))
       THEN /\ pc' = "throw"
            /\ i' = i + 1
            /\ UNCHANGED opt
       ELSE /\ opt' = [opt EXCEPT
                         !.charAspect = MaxRat(<<1, 20>>, Stof(Arg(i + 1)))]
            /\ i' = i + 2
            /\ UNCHANGED pc
    /\ UNCHANGED <<outcome, diag, exitStatus>>
    /\ ParseFrame

\* Lines 60-66: the charset is stored, then rejected when empty.
ParseCharset ==
    /\ InLoop
    /\ Arg(i) \in {"-c", "--charset"}
    /\ need_val
    /\ opt' = [opt EXCEPT !.charset = Chars(Arg(i + 1))]
    /\ IF Chars(Arg(i + 1)) = << >>
       THEN /\ Reject("empty_charset", "Charset must not be empty.")
            /\ i' = i + 1
       ELSE /\ i' = i + 2
            /\ UNCHANGED <<pc, outcome, diag>>
    /\ UNCHANGED exitStatus
    /\ ParseFrame

\* Lines 67-68.
ParseInvert ==
    /\ InLoop
    /\ Arg(i) \in {"-i", "--invert"}
    /\ opt' = [opt EXCEPT !.invert = TRUE]
    /\ i' = i + 1
    /\ UNCHANGED <<pc, outcome, diag, exitStatus>>
    /\ ParseFrame

\* ParseOutput opening the output file while it parses.
ParseOutputOpensEagerly ==
    /\ InLoop
    /\ Arg(i) \in {"-o", "--output"}
    /\ need_val
    /\ opt' = [opt EXCEPT !.outputPath = Arg(i + 1)]
    /\ i' = i + 2
    /\ truncated' = IF Openable(Arg(i + 1)) /\ Arg(i + 1) # ""
                    THEN truncated \cup {Arg(i + 1)} ELSE truncated
    /\ UNCHANGED <<pc, outcome, diag, exitStatus>>
    /\ UNCHANGED <<argv, file, img, outW, outH, resized, out, y, sink, fin,
                   fout>>

\* Lines 69-71.
ParseOutput ==
    /\ InLoop
    /\ Arg(i) \in {"-o", "--output"}
    /\ need_val
    /\ opt' = [opt EXCEPT !.outputPath = Arg(i + 1)]
    /\ i' = i + 2
    /\ UNCHANGED <<pc, outcome, diag, exitStatus>>
    /\ ParseFrame

\* Lines 72-74: the usage is printed and parse_args returns false.
ParseHelp ==
    /\ InLoop
    /\ Arg(i) \in {"-h", "--help"}
    /\ Reject("help", "usage")
    /\ UNCHANGED <<i, opt, exitStatus>>
    /\ ParseFrame

\* Lines 75-78.
ParseUnknown ==
    /\ InLoop
    /\ ~IsValueOption(Arg(i))
    /\ Arg(i) \notin {"-i", "--invert", "-h", "--help"}
    /\ Reject("unknown_option", "Unknown option")
    /\ UNCHANGED <<i, opt, exitStatus>>
    /\ ParseFrame

\* Line 80: the loop is over, parse_args returns true.
ParseReturnTrue ==
    /\ pc = "parse"
    /\ i >= argc
    /\ pc' = "load"
    /\ UNCHANGED <<i, opt, outcome, diag, exitStatus>>
    /\ ParseFrame

(***************************************************************************)
(* main.                                                                   *)
(***************************************************************************)
\* The status main returns when parse_args returned false (line 114).
RejectedStatus == IF argc < 2 THEN 1 ELSE 0

\* Lines 113-115.
MainRejected ==
    /\ pc = "rejected"
    /\ exitStatus' = RejectedStatus
    /\ pc' = "exit"
    /\ UNCHANGED <<argv, file, i, opt, img, outW, outH, resized, out,
                   truncated, y, sink, diag, outcome, fin, fout>>

\* Neither parse_args nor main has a handler: the exception std::stof threw
\* leaves main, std::terminate aborts the process (SIGABRT, 134 to a shell).
MainUncaught ==
    /\ pc = "throw"
    /\ exitStatus' = 134
    /\ outcome' = "uncaught_exception"
    /\ pc' = "exit"
    /\ UNCHANGED <<argv, file, i, opt, img, outW, outH, resized, out,
                   truncated, y, sink, diag, fin, fout>>

\* The decoder finds an image only at the path "img", when the file is there.
Decodes == opt.inputPath = "img" /\ file # NoFile

\* Lines 117-123: stbi_load, and the exit with 1 when it returns null.
MainLoad ==
    /\ pc = "load"
    /\ IF Decodes
       THEN /\ img' = stbi_load(file)
            /\ pc' = "plan"
            /\ UNCHANGED <<diag, exitStatus, outcome>>
       ELSE /\ diag' = Append(diag, "Failed to load image")
            /\ exitStatus' = 1
            /\ outcome' = "decode_failed"
            /\ pc' = "exit"
            /\ UNCHANGED img
    /\ UNCHANGED <<argv, file, i, opt, outW, outH, resized, out, truncated,
                   y, sink, fin, fout>>

\* Lines 125-134: the output dimensions and the resized image.
MainResize ==
    /\ pc = "plan"
    /\ outW' = Max(1, opt.width)
    /\ outH' = OutRows(img.h, outW', img.w, opt.charAspect)
    /\ resized' = resize_nn(img.px, img.w, img.h, outW', outH')
    /\ pc' = "open"
    /\ UNCHANGED <<argv, file, i, opt, img, out, truncated, y, sink, diag,
                   exitStatus, outcome, fin, fout>>

\* MainOpen reporting the failure to open on std::cout, not std::cerr.
MainOpenReportsToCout ==
    /\ pc = "open"
    /\ IF opt.outputPath = ""
       THEN /\ out' = "cout"
            /\ pc' = "emit"
            /\ UNCHANGED <<truncated, file, sink, exitStatus, outcome>>
       ELSE IF Openable(opt.outputPath)
       THEN /\ out' = opt.outputPath
            /\ truncated' = truncated \cup {opt.outputPath}
            /\ file' = IF opt.outputPath = "img" THEN NoFile ELSE file
            /\ pc' = "emit"
            /\ UNCHANGED <<sink, exitStatus, outcome>>
       ELSE /\ sink' = Append(sink, "Failed to open output file")
            /\ exitStatus' = 1
            /\ outcome' = "open_failed"
            /\ pc' = "exit"
            /\ UNCHANGED <<out, truncated, file>>
    /\ y' = 0
    /\ UNCHANGED <<argv, i, opt, img, outW, outH, resized, diag, fin, fout>>

\* Lines 136-145: rows go to std::cout, or to the output file, which is
\* opened with ios::trunc here; a failure to open it exits with 1.
MainOpen ==
    /\ pc = "open"
    /\ IF opt.outputPath = ""
       THEN /\ out' = "cout"
            /\ pc' = "emit"
            /\ UNCHANGED <<truncated, file, diag, exitStatus, outcome>>
       ELSE IF Openable(opt.outputPath)
       THEN /\ out' = opt.outputPath
            /\ truncated' = truncated \cup {opt.outputPath}
            /\ file' = IF opt.outputPath = "img" THEN NoFile ELSE file
            /\ pc' = "emit"
            /\ UNCHANGED <<diag, exitStatus, outcome>>
       ELSE /\ diag' = Append(diag, "Failed to open output file")
            /\ exitStatus' = 1
            /\ outcome' = "open_failed"
            /\ pc' = "exit"
            /\ UNCHANGED <<out, truncated, file>>
    /\ y' = 0
    /\ UNCHANGED <<argv, i, opt, img, outW, outH, resized, sink, fin, fout>>

\* EmitLine with the inner loop ending one column early (x < outW - 1).
EmitLineShort(yy) ==
    [x \in 1..(outW - 1) |->
        map_intensity_to_char(resized[yy * outW + (x - 1) + 1], opt.charset,
                              opt.invert)]

\* EmitLine reading resized[x], the row offset y * outW forgotten.
EmitLineFirstRow(yy) ==
    [x \in 1..outW |->
        map_intensity_to_char(resized[(x - 1) + 1], opt.charset, opt.invert)]

\* Lines 149-152: the characters of row yy, in increasing x.
EmitLine(yy) ==
    [x \in 1..outW |->
        map_intensity_to_char(resized[yy * outW + (x - 1) + 1], opt.charset,
                              opt.invert)]

\* Lines 148-154, one iteration of the outer loop: the row, then '\n'.
MainEmitRow ==
    /\ pc = "emit"
    /\ y < outH
    /\ sink' = sink \o EmitLine(y) \o <<"\n">>
    /\ y' = y + 1
    /\ UNCHANGED <<argv, file, pc, i, opt, img, outW, outH, resized, out,
                   truncated, diag, exitStatus, outcome, fin, fout>>

\* Lines 156-160: the confirmation goes to std::cerr; main returns 0.
MainFinish ==
    /\ pc = "emit"
    /\ y >= outH
    /\ diag' = IF opt.outputPath # "" THEN Append(diag, "Wrote ASCII art to")
               ELSE diag
    /\ exitStatus' = 0
    /\ outcome' = "ok"
    /\ pc' = "exit"
    /\ UNCHANGED <<argv, file, i, opt, img, outW, outH, resized, out,
                   truncated, y, sink, fin, fout>>

ParseArgs ==
    \/ ParseEnter
    \/ ParseMissingValue
    \/ ParseWidth
    \/ ParseAspect
    \/ ParseCharset
    \/ ParseInvert
    \/ ParseOutput
    \/ ParseHelp
    \/ ParseUnknown
    \/ ParseReturnTrue

Pipeline ==
    \/ MainLoad
    \/ MainResize
    \/ MainOpen
    \/ MainEmitRow
    \/ MainFinish

(***************************************************************************)
(* The program run from its command line.                                  *)
(***************************************************************************)
NoFn == [kind |-> "none"]

\* Every command line of at most MaxArgs words after the program name.
Argvs ==
    {<<"prog">> \o a : a \in UNION {[1..n -> Tokens] : n \in 0..MaxArgs}}

Fresh ==
    /\ opt = DefaultOptions
    /\ i = 0
    /\ img = NoImage
    /\ outW = 0
    /\ outH = 0
    /\ resized = << >>
    /\ out = "cout"
    /\ truncated = {}
    /\ y = 0
    /\ sink = << >>
    /\ diag = << >>
    /\ exitStatus = -1
    /\ outcome = "running"

Init ==
    /\ argv \in Argvs
    /\ file = StripFile
    /\ pc = "start"
    /\ Fresh
    /\ fin = NoFn
    /\ fout = NoFn

Next == ParseArgs \/ MainRejected \/ MainUncaught \/ Pipeline

Spec == Init /\ [][Next]_vars

(***************************************************************************)
(* The pipeline run from the options: main from line 117 on, started from  *)
(* Options values parse_args returns true with (width >= 1, aspect >=      *)
(* 0.05, a charset that is not empty).                                     *)
(***************************************************************************)
PipeCharsets == {DefaultCharset, <<"@", " ">>, <<"#">>}

PipeOptions ==
    [inputPath : {"img"}, outputPath : {"", "out", "/nodir/out"},
     width : 1..MaxCols, charAspect : {<<1, 2>>, <<1, 1>>, <<2, 1>>},
     invert : BOOLEAN, charset : PipeCharsets]

PipeInit ==
    /\ argv = <<"prog", "img">>
    /\ file \in ImageFiles \cup {NoFile}
    /\ pc = "load"
    /\ opt \in PipeOptions
    /\ i = 2
    /\ img = NoImage
    /\ outW = 0
    /\ outH = 0
    /\ resized = << >>
    /\ out = "cout"
    /\ truncated = {}
    /\ y = 0
    /\ sink = << >>
    /\ diag = << >>
    /\ exitStatus = -1
    /\ outcome = "running"
    /\ fin = NoFn
    /\ fout = NoFn

PipeNext == Pipeline

SpecPipe == PipeInit /\ [][PipeNext]_vars

(***************************************************************************)
(* The functions applied to inputs of their own: resize_nn with main's row *)
(* count, and map_intensity_to_char.                                       *)
(***************************************************************************)
\* A ramp of n characters: the default charset's, repeated past its end.
Ramp(n) == [k \in 1..n |-> DefaultCharset[((k - 1) % Len(DefaultCharset)) + 1]]

GeomInputs ==
    [kind : {"resize_nn"}, sw : 1..MaxGeom, sh : 1..MaxGeom, dw : 1..MaxGeom,
     aspect : {<<1, 20>>, <<1, 2>>, <<1, 1>>, <<2, 1>>}]

MapInputs ==
    [kind : {"map"}, v : 0..255, invert : BOOLEAN,
     charset : {Ramp(n) : n \in 1..MaxRamp} \cup {<<"@", " ">>}]

FnInit ==
    /\ argv = <<"prog">>
    /\ file = NoFile
    /\ pc = "fn"
    /\ Fresh
    /\ fin \in GeomInputs \cup MapInputs
    /\ fout = NoFn

\* main's row count for the input, then resize_nn's loops: the source column
\* of every destination column, the source row of every destination row and
\* the index read for every destination cell.
ApplyResize ==
    /\ fin.kind = "resize_nn"
    /\ fout = NoFn
    /\ LET dh == OutRows(fin.sh, fin.dw, fin.sw, fin.aspect)
       IN  fout' =
             [kind |-> "resize_nn",
              dh |-> dh,
              sx |-> [x \in 0..(fin.dw - 1) |-> SrcCoord(x, fin.sw, fin.dw)],
              sy |-> [r \in 0..(dh - 1) |-> SrcCoord(r, fin.sh, dh)],
              idx |-> [k \in 1..(fin.dw * dh) |->
                         SampleIndex((k - 1) % fin.dw, (k - 1) \div fin.dw,
                                     fin.sw, fin.sh, fin.dw, dh)]]
    /\ UNCHANGED <<mainVars, fin>>

ApplyMap ==
    /\ fin.kind = "map"
    /\ fout = NoFn
    /\ fout' = [kind |-> "map",
                c |-> map_intensity_to_char(fin.v, fin.charset, fin.invert)]
    /\ UNCHANGED <<mainVars, fin>>

FnNext == ApplyResize \/ ApplyMap

SpecFn == FnInit /\ [][FnNext]_vars

(***************************************************************************)
(* Definitions the properties share.                                       *)
(***************************************************************************)
\* std::round of the rational n/d (d > 0), halves away from zero.
RoundHalfAway(n, d) ==
    IF n >= 0 THEN (2 * n + d) \div (2 * d) ELSE -((d - 2 * n) \div (2 * d))

\* The specified centre-of-cell source coordinate of destination coordinate
\* x: round((x + 0.5) * sw / dw - 0.5) clamped to [0, sw - 1].
CentreOfCell(x, sw, dw) ==
    Clamp(RoundHalfAway((2 * x + 1) * sw - dw, 2 * dw), 0, sw - 1)

ArgumentErrors ==
    {"no_input", "missing_value", "unknown_option", "empty_charset"}

\* The error outcomes the specification names.
NamedErrors == ArgumentErrors \cup {"decode_failed", "open_failed"}

\* Every way a run ends without having succeeded or printed the help.
ErrorOutcomes == NamedErrors \cup {"uncaught_exception"}

HelpWords == {"-h", "--help"}

Exited == pc = "exit"

\* The character written at column x of line r (both from 0).
SinkAt(r, x) == sink[r * (outW + 1) + x + 1]

(***************************************************************************)
(* C1.  For every source size, column count and aspect, the row count is   *)
(* at least 1, and every source column, source row and read index that     *)
(* resize_nn computes lies inside the source image.                        *)
(***************************************************************************)
C1_SamplesInBounds ==
    fout.kind = "resize_nn" =>
        /\ fout.dh >= 1
        /\ \A x \in DOMAIN fout.sx : 0 <= fout.sx[x] /\ fout.sx[x] < fin.sw
        /\ \A r \in DOMAIN fout.sy : 0 <= fout.sy[r] /\ fout.sy[r] < fin.sh
        /\ \A k \in DOMAIN fout.idx :
              0 <= fout.idx[k] /\ fout.idx[k] < fin.sw * fin.sh

\* An upsampled image whose last cell reads the last source pixel, and a
\* downsampled one whose row count was raised to 1.
C1_Witness ==
    /\ fout.kind = "resize_nn"
    /\ fin.sw > 1 /\ fin.sh > 1 /\ fin.dw > fin.sw
    /\ fout.dh > fin.sh
    /\ fout.idx[fin.dw * fout.dh] = fin.sw * fin.sh - 1

(***************************************************************************)
(* C2.  The exit status is 0 on success and 1 on every error outcome.      *)
(***************************************************************************)
C2_ExitStatus ==
    Exited =>
        /\ outcome = "ok" => exitStatus = 0
        /\ outcome \in NamedErrors => exitStatus = 1

(***************************************************************************)
(* C3.  A command line that holds -h or --help at any position after the   *)
(* program name, the first included, prints the usage and exits with 0,    *)
(* with no decode and no row.  (A help word that directly follows -w, -a,  *)
(* -c or -o is read as that option's value and is left out here.)          *)
(***************************************************************************)
HelpAsked ==
    \E k \in 2..Len(argv) :
        /\ argv[k] \in HelpWords
        /\ k = 2 \/ ~IsValueOption(argv[k - 1])

C3_HelpAnywhere ==
    (Exited /\ HelpAsked) =>
        /\ outcome = "help"
        /\ diag = <<"usage">>
        /\ exitStatus = 0
        /\ img = NoImage
        /\ sink = << >>

(***************************************************************************)
(* C4.  After a successful run the data sink holds exactly outH lines,     *)
(* each outW characters of the charset and then one newline, and nothing   *)
(* else; the run has ended.                                                *)
(***************************************************************************)
C4_SinkShape ==
    outcome = "ok" =>
        /\ Exited
        /\ Len(sink) = outH * (outW + 1)
        /\ \A k \in 1..Len(sink) :
              IF k % (outW + 1) = 0 THEN sink[k] = "\n"
              ELSE \E c \in 1..Len(opt.charset) : sink[k] = opt.charset[c]

\* A run to a file, of several lines of several columns.
C4_Witness ==
    /\ outcome = "ok"
    /\ opt.outputPath = "out"
    /\ outW >= 2
    /\ outH >= 3
    /\ diag = <<"Wrote ASCII art to">>

(***************************************************************************)
(* C5.  Without invert, intensity 0 maps to the first ramp character and   *)
(* 255 to the last; with invert the two are swapped.                       *)
(***************************************************************************)
C5_RampEnds ==
    (fout.kind = "map" /\ fin.v \in {0, 255}) =>
        fout.c = IF (fin.v = 0) = fin.invert
                 THEN fin.charset[Len(fin.charset)]
                 ELSE fin.charset[1]

\* Intensity 255 inverted, on a ramp whose two ends differ.
C5_Witness ==
    /\ fout.kind = "map"
    /\ fin.v = 255
    /\ fin.invert
    /\ Len(fin.charset) >= 2
    /\ fin.charset[1] # fin.charset[Len(fin.charset)]
    /\ fout.c = fin.charset[1]

(***************************************************************************)
(* C6.  A run that ends in an error has written nothing to the data sink.  *)
(***************************************************************************)
C6_NoOutputOnError ==
    (outcome \in ErrorOutcomes \/ exitStatus \notin {-1, 0}) => sink = << >>

\* The latest error there is: the output file cannot be opened.
C6_Witness ==
    /\ outcome = "open_failed"
    /\ exitStatus = 1
    /\ resized # << >>
    /\ sink = << >>

(***************************************************************************)
(* C7.  For a 1-channel image, the sink holds, line after line and column  *)
(* after column, the glyph of the source pixel at the centre-of-cell       *)
(* coordinate of each cell, each cell once; the 2x2 checkerboard on ramp   *)
(* "@ " gives "@ " then " @", and a uniform image gives one character.     *)
(***************************************************************************)
C7_CellGlyphs ==
    (file.ch = 1 /\ pc \in {"emit", "exit"}) =>
        /\ Len(sink) = y * (outW + 1)
        /\ \A r \in 0..(y - 1) : \A x \in 0..(outW - 1) :
              SinkAt(r, x) =
                 map_intensity_to_char(
                    FilePx(file)[CentreOfCell(r, file.h, outH) * file.w
                                 + CentreOfCell(x, file.w, outW) + 1][1],
                    opt.charset, opt.invert)
        /\ (\A k \in DOMAIN FilePx(file) : FilePx(file)[k] = <<128>>) =>
              \A r \in 0..(y - 1) : \A x \in 0..(outW - 1) :
                 SinkAt(r, x) =
                    map_intensity_to_char(128, opt.charset, opt.invert)
        /\ ( /\ file.w = 2 /\ file.h = 2
             /\ FilePx(file) = << <<0>>, <<255>>, <<255>>, <<0>> >>
             /\ outW = 2 /\ outH = 2
             /\ opt.charset = <<"@", " ">> /\ ~opt.invert
             /\ outcome = "ok" ) =>
              sink = <<"@", " ", "\n", " ", "@", "\n">>

\* The 2x2 checkerboard run of the claim, ended.
C7_Witness ==
    /\ file.w = 2 /\ file.h = 2
    /\ FilePx(file) = << <<0>>, <<255>>, <<255>>, <<0>> >>
    /\ outW = 2 /\ outH = 2
    /\ opt.charset = <<"@", " ">> /\ ~opt.invert
    /\ outcome = "ok"
    /\ sink = <<"@", " ", "\n", " ", "@", "\n">>

(***************************************************************************)
(* C8.  A fully transparent pixel reaches the glyph mapper as intensity 0. *)
(***************************************************************************)
C8_TransparentIsDark ==
    (file.ch = 4 /\ resized # << >>) =>
        \A k \in DOMAIN resized :
            LET src == SampleIndex((k - 1) % outW, (k - 1) \div outW,
                                   img.w, img.h, outW, outH) + 1
            IN  FilePx(file)[src][4] = 0 => resized[k] = 0

(***************************************************************************)
(* C9.  The source coordinate resize_nn computes equals the specified      *)
(* centre-of-cell coordinate, for columns and for rows, and does not       *)
(* decrease along either axis.                                             *)
(***************************************************************************)
C9_CentreOfCell ==
    fout.kind = "resize_nn" =>
        /\ \A x \in DOMAIN fout.sx :
              fout.sx[x] = CentreOfCell(x, fin.sw, fin.dw)
        /\ \A r \in DOMAIN fout.sy :
              fout.sy[r] = CentreOfCell(r, fin.sh, fout.dh)
        /\ \A a, b \in DOMAIN fout.sx : a <= b => fout.sx[a] <= fout.sx[b]
        /\ \A a, b \in DOMAIN fout.sy : a <= b => fout.sy[a] <= fout.sy[b]

\* A column whose scaled centre is a whole number, where truncation and
\* rounding meet at a half, and a row likewise.
C9_Witness ==
    /\ fout.kind = "resize_nn"
    /\ \E x \in DOMAIN fout.sx :
          /\ ((2 * x + 1) * fin.sw) % (2 * fin.dw) = 0
          /\ fout.sx[x] >= 1
    /\ \E r \in DOMAIN fout.sy :
          /\ ((2 * r + 1) * fin.sh) % (2 * fout.dh) = 0
          /\ fout.sy[r] >= 1

(***************************************************************************)
(* C10.  The output file is opened only after the arguments were parsed    *)
(* and the image was decoded: a run that ends in an argument error or a    *)
(* decode failure has opened no file.                                      *)
(***************************************************************************)
C10_OpenAfterDecode ==
    /\ truncated # {} => (pc \in {"emit", "exit"} /\ img # NoImage)
    /\ (outcome \in ArgumentErrors \cup
                    {"help", "decode_failed", "uncaught_exception"}) =>
          truncated = {}

\* A decode failure of a run that names an output file, which stays
\* untouched.
C10_Witness ==
    /\ outcome = "decode_failed"
    /\ opt.outputPath = "out"
    /\ truncated = {}

====
